---- MODULE Spec2Model ----
(***************************************************************************)
(* Model of the syringe-pump serial driver myser_v11.py: class Pump (the   *)
(* request/response cycle _write_read, the command API, the dispensed-     *)
(* volume carryover) and the callers of PumpControl / main_ui that share   *)
(* one serial transport.                                                   *)
(*                                                                         *)
(* Text is modelled character by character: a string is a sequence of      *)
(* one-character strings.  "STX", "ETX", "CR", "LF" stand for the control  *)
(* characters \x02, \x03, \r, \n and "xFF" for a byte that is not valid    *)
(* UTF-8.  Volumes are fixed-point numbers counted in tenths.              *)
(***************************************************************************)
EXTENDS Integers, Sequences, FiniteSets, TLC

\* ------------------------------------------------------------------ bounds
MaxFaults == 1
\* a dispense step adds Tick tenths to a counter; a pump stops moving when its
\* counters and carryover together hold MaxTicks steps
MaxTicks == 2
Tick == 7
MaxVolume == MaxTicks * Tick
\* the longest data payload of the replies that are decoded on their own
MaxData == 4

\* --------------------------------------------------------------- characters
STX == "STX"
ETX == "ETX"
CR == "CR"
LF == "LF"
BadByte == "xFF"

Digits == {"0", "1", "2", "3", "4", "5", "6", "7", "8", "9"}

DigitVal(c) ==
  CASE c = "0" -> 0 [] c = "1" -> 1 [] c = "2" -> 2 [] c = "3" -> 3
    [] c = "4" -> 4 [] c = "5" -> 5 [] c = "6" -> 6 [] c = "7" -> 7
    [] c = "8" -> 8 [] c = "9" -> 9

DigitChar(d) ==
  CASE d = 0 -> "0" [] d = 1 -> "1" [] d = 2 -> "2" [] d = 3 -> "3"
    [] d = 4 -> "4" [] d = 5 -> "5" [] d = 6 -> "6" [] d = 7 -> "7"
    [] d = 8 -> "8" [] d = 9 -> "9"

\* str(n) of a non-negative integer
RECURSIVE Str(_)
Str(n) == IF n < 10 THEN <<DigitChar(n)>> ELSE Str(n \div 10) \o <<DigitChar(n % 10)>>

\* s[i:] and s[i:j] of Python, on 1-based sequences: the elements from..to
Slice(s, from, to) == IF to < from THEN <<>> ELSE SubSeq(s, from, to)

StartsWith(s, pre) == Len(s) >= Len(pre) /\ SubSeq(s, 1, Len(pre)) = pre

\* ------------------------------------------------------------ class constants
\* Pump.STATUS
STATUS(c) ==
  CASE c = "I" -> "infusing" [] c = "W" -> "withdrawing" [] c = "S" -> "halted"
    [] c = "P" -> "paused" [] c = "T" -> "in timed pause"
    [] c = "U" -> "waiting for trigger" [] c = "X" -> "purging"

StatusChars == {"I", "W", "S", "P", "T", "U", "X"}

\* --------------------------------------------------------- Pump._response
\* re.match of  \x02 (\d+) ([IWSPTUX]|A\?) (.*) \x03 : anchored at the start only,
\* "." matches anything but a newline, ".*" is greedy (data runs to the LAST \x03).
\* the index of the last character of the run of characters of `set` that starts
\* at k + 1 (k: the run is empty)
RECURSIVE RunFrom(_, _, _)
RunFrom(s, k, set) ==
  IF k < Len(s) /\ s[k + 1] \in set THEN RunFrom(s, k + 1, set) ELSE k

\* DigitsEnd for \d in place of \d+: one digit only
DigitsEndOne(s) == IF Len(s) >= 2 /\ s[2] \in Digits THEN 2 ELSE 1

\* \d+ after the \x02: the index of the last digit (1: no digit)
DigitsEnd(s) == RunFrom(s, 1, Digits)

\* the index of the last \x03 in s[from..to], or 0
RECURSIVE LastETX(_, _, _)
LastETX(s, from, to) ==
  IF to < from THEN 0 ELSE IF s[to] = ETX THEN to ELSE LastETX(s, from, to - 1)

\* the index of the last character before the first newline at or after `from`
RECURSIVE LineEnd(_, _)
LineEnd(s, from) ==
  IF from > Len(s) \/ s[from] = LF THEN from - 1 ELSE LineEnd(s, from + 1)

NoMatch == [ok |-> FALSE, address |-> <<>>, status |-> <<>>, data |-> <<>>]

\* (.*)\x03 from index ds on: the data runs up to the last \x03 of the line
ResponseGroups(s, ke, st, ds) ==
  LET j == LastETX(s, ds, LineEnd(s, ds))
  IN  IF j = 0 THEN NoMatch
      ELSE [ok |-> TRUE, address |-> Slice(s, 2, ke),
            status |-> st, data |-> Slice(s, ds, j - 1)]

_response(s) ==
  IF Len(s) < 2 \/ s[1] # STX THEN NoMatch
  ELSE LET ke == DigitsEnd(s)
       IN  IF ke < 2 \/ Len(s) < ke + 1 THEN NoMatch
           ELSE IF s[ke + 1] \in StatusChars
                  THEN ResponseGroups(s, ke, <<s[ke + 1]>>, ke + 2)
           ELSE IF s[ke + 1] = "A" /\ Len(s) >= ke + 2 /\ s[ke + 2] = "?"
                  THEN ResponseGroups(s, ke, <<"A", "?">>, ke + 3)
           ELSE NoMatch

\* bytes.decode('utf-8'): the same characters, or UnicodeDecodeError
DecodeFails(res) == \E i \in 1..Len(res) : res[i] = BadByte

\* ------------------------------------------------- Pump._write_read, after the read
\* What one cycle yields for the line `res` that readline() returned.
\* kind "Response" is the normal return (match.groupdict()); any other kind is the
\* exception raised, with its code.
Exc(kind, code) ==
  [kind |-> kind, code |-> code, address |-> <<>>, status |-> <<>>, data |-> <<>>]

\* Classify with the "?" test made before the "A?" test
ClassifyErrorFirst(res) ==
  IF DecodeFails(res) THEN Exc("UnicodeDecodeError", <<>>)
  ELSE LET m == _response(res)
       IN  IF ~m.ok THEN Exc("PumpCommError", <<"N", "R">>)
           ELSE IF StartsWith(m.data, <<"?">>)
                  THEN Exc("PumpCommError", Slice(m.data, 2, Len(m.data)))
           ELSE IF m.status = <<"A", "?">> THEN Exc("PumpHardwareError", m.data)
           ELSE [kind |-> "Response", code |-> <<>>, address |-> m.address,
                 status |-> m.status, data |-> m.data]

Classify(res) ==
  \* `res == ''` compares bytes with str and is never true: an empty read falls
  \* through to the regular expression, which does not match.
  IF DecodeFails(res) THEN Exc("UnicodeDecodeError", <<>>)
  ELSE LET m == _response(res)
       IN  IF ~m.ok THEN Exc("PumpCommError", <<"N", "R">>)
           ELSE IF m.status = <<"A", "?">> THEN Exc("PumpHardwareError", m.data)
           ELSE IF StartsWith(m.data, <<"?">>)
                  THEN Exc("PumpCommError", Slice(m.data, 2, Len(m.data)))
           ELSE [kind |-> "Response", code |-> <<>>, address |-> m.address,
                 status |-> m.status, data |-> m.data]

\* --------------------------------------------------------- Pump._dispensed
\* re.match of  I([\.0-9]+) W([\.0-9]+) ([MLU]{2}) on the data payload
NumChars == Digits \cup {"."}

\* the last index of the maximal run of NumChars starting at `from` (from-1: empty run)
RunEnd(s, from) == RunFrom(s, from - 1, NumChars)

NoDispensed == [ok |-> FALSE, infuse |-> <<>>, withdraw |-> <<>>, units |-> <<>>]

_dispensed(s) ==
  IF Len(s) < 1 \/ s[1] # "I" THEN NoDispensed
  ELSE LET e1 == RunEnd(s, 2)
       IN  IF e1 < 2 \/ Len(s) < e1 + 1 \/ s[e1 + 1] # "W" THEN NoDispensed
           ELSE LET e2 == RunEnd(s, e1 + 2)
                IN  IF e2 < e1 + 2 \/ Len(s) < e2 + 2
                       \/ s[e2 + 1] \notin {"M", "L", "U"}
                       \/ s[e2 + 2] \notin {"M", "L", "U"}
                      THEN NoDispensed
                    ELSE [ok |-> TRUE, infuse |-> Slice(s, 2, e1),
                          withdraw |-> Slice(s, e1 + 2, e2),
                          units |-> Slice(s, e2 + 1, e2 + 2)]

\* float(s) for s over [.0-9], in tenths (digits after the first decimal are dropped:
\* the counters of the model have one decimal); ok = FALSE is ValueError
RECURSIVE IntOf(_)
IntOf(ds) == IF ds = <<>> THEN 0
             ELSE 10 * IntOf(SubSeq(ds, 1, Len(ds) - 1)) + DigitVal(ds[Len(ds)])

PyFloat(s) ==
  LET dots == {i \in 1..Len(s) : s[i] = "."}
  IN  IF Cardinality(dots) > 1 \/ Len(s) - Cardinality(dots) < 1
        THEN [ok |-> FALSE, v |-> 0]
      ELSE IF dots = {} THEN [ok |-> TRUE, v |-> 10 * IntOf(s)]
      ELSE LET d == CHOOSE i \in dots : TRUE
               frac == IF d < Len(s) THEN DigitVal(s[d + 1]) ELSE 0
           IN  [ok |-> TRUE, v |-> 10 * IntOf(Slice(s, 1, d - 1)) + frac]

\* Pump._getDispensed after its _write_read returned the payload `data`:
\* the float, or the exception raised (match is None -> AttributeError)
GetDispensedValue(data, direction) ==
  LET m == _dispensed(data)
  IN  IF ~m.ok THEN [exc |-> "AttributeError", v |-> 0]
      ELSE LET f == PyFloat(IF direction = "infuse" THEN m.infuse ELSE m.withdraw)
           IN  IF f.ok THEN [exc |-> "", v |-> f.v] ELSE [exc |-> "ValueError", v |-> 0]

\* ------------------------------------------------------------ configuration
\* The addresses of the pumps on the serial line
Pumps == {0, 1}

\* Pump.__init__ defaults (no 'rate', 'diameter', ... key in the config record)
cfgDiameter == <<"1", "4", ".", "3">>
cfgVolume == <<"1", "0", "0">>
cfgVolumeUnit == <<"U", "L">>
cfgRate == <<"1", "0">>
cfgRateUnits == <<"U", "M">>

\* Pump.REV_DIR_MODE
REV_DIR_MODE(direction) ==
  CASE direction = "infuse" -> <<"I", "N", "F">>
    [] direction = "withdraw" -> <<"W", "D", "R">>
    [] direction = "reverse" -> <<"R", "E", "V">>

\* command texts
cmdAL == <<"A", "L", " ", "0">>
cmdDIA == <<"D", "I", "A">>
cmdVOL == <<"V", "O", "L">>
cmdRAT == <<"R", "A", "T">>
cmdDIR == <<"D", "I", "R">>
cmdDIS == <<"D", "I", "S">>
cmdRUN == <<"R", "U", "N">>
cmdSTP == <<"S", "T", "P">>
cmdCLDINF == <<"C", "L", "D", " ", "I", "N", "F">>
cmdCLDWDR == <<"C", "L", "D", " ", "W", "D", "R">>
cmdPHN == <<"P", "H", "N", " ", " ", "1">>
SP == <<" ">>

\* The command Pump.__init__ passes to _write_read at its step k (1..5), then
\* resetDispensed's two (6, 7)
InitCmd(k) ==
  CASE k = 1 -> cmdAL
    [] k = 2 -> cmdDIA \o SP \o cfgDiameter
    [] k = 3 -> cmdVOL \o SP \o cfgVolume
    [] k = 4 -> cmdVOL \o SP \o cfgVolumeUnit
    [] k = 5 -> cmdRAT \o SP \o cfgRate \o SP \o cfgRateUnits
    [] k = 6 -> cmdCLDINF
    [] k = 7 -> cmdCLDWDR

\* The command each operation passes to _write_read at its step k
CmdOf(op, k, arg) ==
  CASE op = "__init__" -> InitCmd(k)
    [] op = "run" -> cmdRUN
    [] op = "stop" -> cmdSTP
    [] op = "setDirection" -> cmdDIR \o SP \o REV_DIR_MODE(arg)
    [] op = "sendCommand" -> arg
    [] op = "getDirection" -> cmdDIR
    [] op = "getRate" -> cmdRAT
    [] op = "setRate" -> cmdRAT \o SP \o arg \o SP \o cfgRateUnits
    [] op = "setVolume" -> cmdVOL \o SP \o arg
    [] op = "getInfused" -> cmdDIS
    [] op = "getWithdrawn" -> cmdDIS
    [] op = "resetDispensed" -> IF k = 1 THEN cmdCLDINF ELSE cmdCLDWDR
    [] op = "setDiameter" -> IF k < 3 THEN cmdDIS ELSE cmdDIA \o SP \o arg
    [] op = "getDiameter" -> cmdDIA
    [] op = "getStatus" -> <<>>
    [] op = "stop_pump" -> IF k = 1 THEN <<>> ELSE cmdSTP
    [] op = "check_rates_loop" -> IF k = 1 THEN <<>> ELSE cmdRAT
    [] op = "disconnect" -> IF k = 1 THEN <<>> ELSE cmdSTP

\* Frame with the line ended by CR LF
FrameCRLF(address, cmd) == Str(address) \o SP \o cmd \o <<CR, LF>>

\* _write_read line 189: str(self._address) + ' ' + cmd + '\r'
Frame(address, cmd) == Str(address) \o SP \o cmd \o <<CR>>

\* ------------------------------------------------------------------ the pump
\* The device on the other end of the line, as the driver assumes it: a pump
\* answers the frames that carry its address, RUN/STP/DIR change its status and
\* direction, DIS reports its counters, CLD and a new diameter clear them.
FrameAddress(frame) ==
  LET sps == {i \in 1..Len(frame) : frame[i] = " "}
      i == CHOOSE j \in sps : \A l \in sps : j <= l
  IN  IntOf(SubSeq(frame, 1, i - 1))

FrameBody(frame) ==
  LET sps == {i \in 1..Len(frame) : frame[i] = " "}
      i == CHOOSE j \in sps : \A l \in sps : j <= l
  IN  Slice(frame, i + 1, Len(frame) - 1)

\* one decimal: 15 tenths is "1.5"
FormatVol(n) == Str(n \div 10) \o <<".">> \o Str(n % 10)

FormatDis(d) == <<"I">> \o FormatVol(d.inf) \o <<"W">> \o FormatVol(d.wdr) \o <<"U", "L">>

DirCode(dir) == IF dir = "INF" THEN <<"I", "N", "F">> ELSE <<"W", "D", "R">>

\* the pump's state after it executes `body`, and the data of its reply
DevExec(d, body) ==
  IF body = cmdRUN
    THEN [d |-> [d EXCEPT !.status = IF d.dir = "INF" THEN "I" ELSE "W"], data |-> <<>>]
  ELSE IF body = cmdSTP THEN [d |-> [d EXCEPT !.status = "S"], data |-> <<>>]
  ELSE IF body = cmdDIR THEN [d |-> d, data |-> DirCode(d.dir)]
  ELSE IF body = cmdDIR \o SP \o <<"I", "N", "F">>
    THEN [d |-> [d EXCEPT !.dir = "INF"], data |-> <<>>]
  ELSE IF body = cmdDIR \o SP \o <<"W", "D", "R">>
    THEN [d |-> [d EXCEPT !.dir = "WDR"], data |-> <<>>]
  ELSE IF body = cmdDIR \o SP \o <<"R", "E", "V">>
    THEN [d |-> [d EXCEPT !.dir = IF d.dir = "INF" THEN "WDR" ELSE "INF"], data |-> <<>>]
  ELSE IF body = cmdDIS THEN [d |-> d, data |-> FormatDis(d)]
  ELSE IF body = cmdCLDINF THEN [d |-> [d EXCEPT !.inf = 0], data |-> <<>>]
  ELSE IF body = cmdCLDWDR THEN [d |-> [d EXCEPT !.wdr = 0], data |-> <<>>]
  ELSE IF body = cmdDIA THEN [d |-> d, data |-> <<"1", "4", ".", "3", "0">>]
  ELSE IF StartsWith(body, cmdDIA \o SP)
    \* a new diameter clears the dispensed counters
    THEN [d |-> [d EXCEPT !.inf = 0, !.wdr = 0], data |-> <<>>]
  ELSE IF body = cmdRAT THEN [d |-> d, data |-> <<"1", "0", ".", "0", "U", "M">>]
  ELSE IF body = cmdVOL THEN [d |-> d, data |-> <<"1", "0", "0", ".", "U", "L">>]
  ELSE [d |-> d, data |-> <<>>]

\* the reply line: STX, two-digit address, status, data, ETX
AddressField(a) == IF a < 10 THEN <<"0">> \o Str(a) ELSE Str(a)

ReplyLine(a, status, data) == <<STX>> \o AddressField(a) \o status \o data \o <<ETX>>

\* What reaches the input buffer when pump `a` (state d) receives `body`, under the
\* line condition f: the new pump state, the lines appended to the buffer, and
\* whether the pump executed the command.
FaultKinds == {"none", "lost", "garbled", "badbyte", "err", "alarm", "foreign"}

\* e is DevExec(d, body)
Answer(d, a, e, f) ==
  IF d.alarm
    \* a pump that has just been powered on answers its first frame with the
    \* power-interrupt alarm
    THEN [d |-> [d EXCEPT !.alarm = FALSE], exec |-> FALSE,
          out |-> <<ReplyLine(a, <<"A", "?">>, <<"R">>)>>]
  ELSE LET line == ReplyLine(a, <<e.d.status>>, e.data)
       IN  CASE f = "none" -> [d |-> e.d, exec |-> TRUE, out |-> <<line>>]
             [] f = "lost" -> [d |-> e.d, exec |-> TRUE, out |-> <<>>]
             [] f = "garbled" -> [d |-> e.d, exec |-> TRUE, out |-> <<Tail(line)>>]
             [] f = "badbyte" ->
                  [d |-> e.d, exec |-> TRUE, out |-> <<<<BadByte>> \o Tail(line)>>]
             [] f = "err" ->
                  [d |-> d, exec |-> FALSE,
                   out |-> <<ReplyLine(a, <<d.status>>, <<"?", "O", "O", "R">>)>>]
             [] f = "alarm" ->
                  [d |-> d, exec |-> FALSE, out |-> <<ReplyLine(a, <<"A", "?">>, <<"S">>)>>]
             [] f = "foreign" ->
                  [d |-> e.d, exec |-> TRUE,
                   out |-> <<ReplyLine(CHOOSE b \in Pumps : b # a, <<e.d.status>>, e.data)>>]

Device(d, a, body, f) == Answer(d, a, DevExec(d, body), f)

\* ------------------------------------------------------------------- state
Threads == {"main", "tA", "tB"}

VARIABLES
  dev,        \* dev[a]: the pump at address a: status, dir, inf, wdr (tenths), alarm
  rx,         \* the serial input buffer: the reply lines not yet read, each with a
              \* note of the thread whose write it answers
  pumps,      \* the addresses of the configuration file, in the order main_ui builds them
  sess,       \* sess[a]: the Pump object for address a
  pc,         \* pc[t]: the operation thread t is in, and where
  ret,        \* ret[t]: how the last finished call of thread t ended
  ui,         \* PumpControl: "down", "init" (initUI running), "up", "dead"
  faults,     \* line faults so far
  inp,        \* the reply under decoding: address, status, data
  decoded,    \* what _write_read made of it
  is_open,    \* self._ser.is_open: the serial port all sessions share is open
  shown,      \* what str() made of the exception in `decoded`
  self_t      \* PumpControl.t: the thread of the Timer it references, or "none"

vars == <<dev, rx, pumps, sess, pc, ret, ui, faults, inp, decoded, is_open, shown, self_t>>

\* bookkeeping of one call, for the properties below
\*   quiet: the pump has not moved since the call began (Watched calls)
\*   cleared: the pump executed a diameter change of this call
\*   before: the pump's counters when the call began (Watched calls)
\*   carry0: the carryover when the call began
\*   live: the pump's counters when it answered the call's last DIS
\*   shape, addr: of the last line read: "empty", "bad" (no match), "ok"; its address
\*   inner, icode: what the last _write_read of the call yielded
\*   halted: the pump was halted when the call began (stop and disconnect calls)
\*   frame: the last frame the call wrote
\*   data: the data group of the last line read, "-" if it has none (getRate and
\*         getDiameter calls)
G0 == [quiet |-> TRUE, cleared |-> FALSE, before |-> <<0, 0>>, carry0 |-> <<0, 0>>,
       live |-> <<0, 0>>, shape |-> "none", addr |-> -1, inner |-> "none", icode |-> <<>>,
       halted |-> FALSE, frame |-> <<>>, data |-> <<"-">>]

\* the shape STX address status data ETX of the raw line res, m being _response(res)
ShapeOf(res, m) == IF res = <<>> THEN "empty" ELSE IF m.ok THEN "ok" ELSE "bad"

AddrOf(m) == IF m.ok THEN IntOf(m.address) ELSE -1

Idle == [op |-> "idle", p |-> 0, arg |-> <<>>, k |-> 0, ph |-> "-", tmp |-> 0,
         sent |-> <<>>, g |-> G0]
Off == [Idle EXCEPT !.op = "off"]
Wait == [Idle EXCEPT !.op = "wait"]
Dead == [Idle EXCEPT !.op = "dead"]

RetNone == [op |-> "none", p |-> 0, exc |-> "", code |-> <<>>, val |-> <<>>,
            sent |-> <<>>, g |-> G0]

\*   registered: atexit.register(self.disconnect) was called (line 166)
\*   exited: the interpreter has run that exit function
NoSession == [state |-> "none", hasLast |-> FALSE, lastInfused |-> 0,
              lastWithdrawn |-> 0, registered |-> FALSE, exited |-> FALSE]

\* what getInfused() / getWithdrawn() of session s return on a line without faults
\* when the pump at address a is in state d: [exc, v]
TotalOf(d, a, s, direction) ==
  LET line == Device([d EXCEPT !.alarm = FALSE], a, cmdDIS, "none").out[1]
      o == Classify(line)
      g == GetDispensedValue(o.data, direction)
  IN  IF o.kind # "Response" THEN [exc |-> o.kind, v |-> 0]
      ELSE IF g.exc # "" THEN g
      ELSE IF ~s.hasLast THEN [exc |-> "AttributeError", v |-> 0]
      ELSE [exc |-> "", v |-> g.v + (IF direction = "infuse" THEN s.lastInfused
                                                              ELSE s.lastWithdrawn)]

\* ... if called now
TotalNow(a, direction) == TotalOf(dev[a], a, sess[a], direction)

\* ... if called when the finished call r began (r is a call that leaves the
\* existence of the carryover attributes as it found it)
TotalBefore(r, direction) ==
  TotalOf([dev[r.p] EXCEPT !.inf = r.g.before[1], !.wdr = r.g.before[2]], r.p,
          [sess[r.p] EXCEPT !.lastInfused = r.g.carry0[1], !.lastWithdrawn = r.g.carry0[2]],
          direction)

\* the calls for which the counters at their begin, and whether the pump moved
\* since, are noted
Watched == {"setDiameter", "resetDispensed", "sendCommand"}

\* a call begins
NewCall(op, a, arg) ==
  [op |-> op, p |-> a, arg |-> arg, k |-> 1, ph |-> "w", tmp |-> 0, sent |-> <<>>,
   g |-> [G0 EXCEPT !.before = IF op \in Watched
                                 THEN <<dev[a].inf, dev[a].wdr>>
                                 ELSE <<0, 0>>,
                    !.carry0 = <<sess[a].lastInfused, sess[a].lastWithdrawn>>,
                    !.halted = op \in {"stop", "disconnect"} /\ dev[a].status = "S"]]

\* before the program starts: the pumps are halted, some just powered on
InitWith(list, nfaults, statuses, alarms) ==
  /\ dev \in [Pumps -> {[status |-> st, dir |-> "INF", inf |-> 0, wdr |-> 0, alarm |-> al] :
                          st \in statuses, al \in alarms}]
  /\ \A a \in Pumps : dev[a].alarm => \E i \in 1..Len(list) : list[i] = a
  /\ pumps = list
  /\ rx = <<>>
  /\ sess = [a \in Pumps |-> NoSession]
  /\ pc = [t \in Threads |-> IF t = "main" THEN Idle ELSE Off]
  /\ ret = [t \in Threads |-> RetNone]
  /\ ui = "down"
  /\ faults = nfaults
  /\ inp = <<>>
  /\ decoded = <<>>
  /\ is_open = TRUE      \* main_ui line 696: serial.Serial(port=...) opens the port
  /\ shown = <<>>
  /\ self_t = "none"

\* a configuration file with one pump
Init == InitWith(<<0>>, 0, {"S"}, BOOLEAN)

\* ------------------------------------------------------------ the operations
\* how a call ends: returned normally (exc = "") with val, or raised exc(code)
Ended(c, exc, code, val) ==
  [op |-> c.op, p |-> c.p, exc |-> exc, code |-> code, val |-> val,
   sent |-> c.sent, g |-> c.g]

\* the outcome of a call is kept for its caller; nobody looks at what a Timer's
\* check_rates_loop returned or raised
Kept(t, r) == IF t = "main" \/ r.op # "check_rates_loop" THEN r ELSE RetNone

\* where thread t goes when its call has ended
AfterCall(t, c, exc) ==
  IF t = "main" THEN Idle
  ELSE IF c.op # "check_rates_loop" THEN Off   \* a caller's thread has finished
  ELSE IF exc = "" THEN Wait      \* check_rates_loop lines 680-681: the next Timer
  ELSE Dead                       \* the timer thread died of the exception

AfterCallUi(t, c, exc) ==
  IF t = "main" /\ c.op = "check_rates_loop"
    THEN (IF exc = "" THEN "up" ELSE "dead")   \* initUI line 478
    ELSE ui

\* the pump after a in self._pumps, or -1
NextPump(a) ==
  LET i == CHOOSE j \in 1..Len(pumps) : pumps[j] = a
  IN  IF i < Len(pumps) THEN pumps[i + 1] ELSE -1

Step(c, s) == [done |-> FALSE, exc |-> "", code |-> <<>>, val |-> <<>>, s |-> s,
               c |-> [c EXCEPT !.k = c.k + 1, !.ph = "w"]]
Return(c, s, val) == [done |-> TRUE, exc |-> "", code |-> <<>>, val |-> val, s |-> s, c |-> c]
\* Raise with one more attempt: the step that failed is written again, once
RaiseRetry(c, s, exc, code) ==
  IF Len(c.sent) = c.k /\ c.k < 2
    THEN [done |-> FALSE, exc |-> "", code |-> <<>>, val |-> <<>>, s |-> s,
          c |-> [c EXCEPT !.ph = "w"]]
  ELSE [done |-> TRUE, exc |-> exc, code |-> code, val |-> <<>>, s |-> s, c |-> c]

Raise(c, s, exc, code) == [done |-> TRUE, exc |-> exc, code |-> code, val |-> <<>>, s |-> s, c |-> c]

\* InitCont with every PumpHardwareError swallowed
InitContSwallowAll(c, o, s) ==
  IF o.kind = "PumpHardwareError" THEN Return(c, [s EXCEPT !.state = "ok"], <<>>)
  ELSE IF o.kind # "Response" THEN Raise(c, [s EXCEPT !.state = "failed"], o.kind, o.code)
  ELSE IF c.k < 5 THEN Step(c, s)
  ELSE IF c.k = 5
    THEN Step(c, [s EXCEPT !.hasLast = TRUE, !.lastInfused = 0, !.lastWithdrawn = 0])
  ELSE IF c.k = 6 THEN Step(c, s)
  ELSE Return(c, [s EXCEPT !.state = "ok", !.registered = TRUE], <<>>)

\* Pump.__init__ lines 156-186, after the _write_read of step k yielded o
InitCont(c, o, s) ==
  IF o.kind = "PumpHardwareError"
    THEN IF o.code # <<"R">> THEN Raise(c, [s EXCEPT !.state = "failed"], o.kind, o.code)
         ELSE Return(c, [s EXCEPT !.state = "ok"], <<>>)
  ELSE IF o.kind # "Response" THEN Raise(c, [s EXCEPT !.state = "failed"], o.kind, o.code)
  ELSE IF c.k < 5 THEN Step(c, s)
  ELSE IF c.k = 5
    THEN Step(c, [s EXCEPT !.hasLast = TRUE, !.lastInfused = 0, !.lastWithdrawn = 0])
  ELSE IF c.k = 6 THEN Step(c, s)
  ELSE Return(c, [s EXCEPT !.state = "ok", !.registered = TRUE], <<>>)

\* getInfused / getWithdrawn lines 269-274: the live value, then the carryover
GetTotalCont(c, o, s, direction) ==
  LET g == GetDispensedValue(o.data, direction)
  IN  IF g.exc # "" THEN Raise(c, s, g.exc, <<>>)
      ELSE IF ~s.hasLast THEN Raise(c, s, "AttributeError", <<>>)
      ELSE Return(c, s, g.v + (IF direction = "infuse" THEN s.lastInfused
                                                        ELSE s.lastWithdrawn))

\* SetDiameterCont with "=" for "+=": the live value replaces the carryover
SetDiameterContAssign(c, o, s) ==
  IF c.k = 3 THEN Return(c, s, <<>>)
  ELSE LET g == GetDispensedValue(o.data, IF c.k = 1 THEN "infuse" ELSE "withdraw")
       IN  IF g.exc # "" THEN Raise(c, s, g.exc, <<>>)
           ELSE IF c.k = 1 THEN Step(c, [s EXCEPT !.lastInfused = g.v])
           ELSE Step(c, [s EXCEPT !.lastWithdrawn = g.v])

\* setDiameter lines 275-279: c.tmp is the carryover loaded before the DIS query
SetDiameterCont(c, o, s) ==
  IF c.k = 3 THEN Return(c, s, <<>>)
  ELSE LET g == GetDispensedValue(o.data, IF c.k = 1 THEN "infuse" ELSE "withdraw")
       IN  IF g.exc # "" THEN Raise(c, s, g.exc, <<>>)
           ELSE IF c.k = 1 THEN Step(c, [s EXCEPT !.lastInfused = c.tmp + g.v])
           ELSE Step(c, [s EXCEPT !.lastWithdrawn = c.tmp + g.v])

\* check_rates_loop lines 672-679
CheckRatesCont(c, o, s) ==
  IF c.k = 1 /\ STATUS(o.status[1]) \in {"infusing", "withdrawing"} THEN Step(c, s)
  ELSE IF NextPump(c.p) = -1 THEN Return(c, s, <<>>)
  ELSE [Step(c, s) EXCEPT !.c = [c EXCEPT !.p = NextPump(c.p), !.k = 1, !.ph = "w"]]

\* disconnect with a finally clause that closes the port and has no return: the
\* exception of getStatus or stop goes on to the caller
DisconnectContReraises(c, o, s) ==
  IF o.kind # "Response" THEN Raise(c, [s EXCEPT !.exited = TRUE], o.kind, o.code)
  ELSE IF c.k = 1 /\ STATUS(o.status[1]) # "halted" THEN Step(c, s)
  ELSE Return(c, [s EXCEPT !.exited = TRUE], <<>>)

\* disconnect lines 214-222: getStatus, stop unless halted; whatever happened, the
\* finally clause closes the port and its return drops the exception
DisconnectCont(c, o, s) ==
  IF o.kind = "Response" /\ c.k = 1 /\ STATUS(o.status[1]) # "halted" THEN Step(c, s)
  ELSE Return(c, [s EXCEPT !.exited = TRUE], <<>>)

\* StopCont as the docstring of stop has it: "Raises PumpError if the pump is
\* already stopped"
StopContRaisesIfHalted(c, o, s) ==
  IF c.g.halted THEN Raise(c, s, "PumpCommError", <<"N", "A">>) ELSE Return(c, s, <<>>)

\* stop lines 226-228, after _write_read('STP') returned: nothing more
StopCont(c, o, s) == Return(c, s, <<>>)

\* Pump.DIR_MODE
DIR_MODE(code) ==
  CASE code = <<"I", "N", "F">> -> "infuse"
    [] code = <<"W", "D", "R">> -> "withdraw"
    [] code = <<"R", "E", "V">> -> "reverse"

\* the values the operations return: a str, or the dict match.groupdict() (None is
\* <<>>, a float is a number of tenths)
PyStr(x) == [type |-> "str", v |-> x]
PyDict(o) == [type |-> "dict", v |-> [address |-> o.address, status |-> o.status, data |-> o.data]]

\* What the operation does with the outcome o of its _write_read at step k
Cont(c, o, s) ==
  IF c.op = "__init__" THEN InitCont(c, o, s)
  ELSE IF c.op = "disconnect" THEN DisconnectCont(c, o, s)
  ELSE IF o.kind # "Response" THEN Raise(c, s, o.kind, o.code)
  ELSE CASE c.op \in {"run", "setDirection", "sendCommand"} -> Return(c, s, <<>>)
         [] c.op = "stop" -> StopCont(c, o, s)
         \* lines 244, 247, 282: the value of _write_read is returned as it is
         [] c.op \in {"setRate", "setVolume", "getDiameter"} -> Return(c, s, PyDict(o))
         \* line 240: ...['data']
         [] c.op = "getRate" -> Return(c, s, PyStr(o.data))
         [] c.op = "getDirection" ->
              IF o.data \in {<<"I", "N", "F">>, <<"W", "D", "R">>, <<"R", "E", "V">>}
                THEN Return(c, s, PyStr(DIR_MODE(o.data))) ELSE Raise(c, s, "KeyError", <<>>)
         [] c.op = "getStatus" -> Return(c, s, PyStr(STATUS(o.status[1])))
         [] c.op = "getInfused" -> GetTotalCont(c, o, s, "infuse")
         [] c.op = "getWithdrawn" -> GetTotalCont(c, o, s, "withdraw")
         [] c.op = "resetDispensed" -> IF c.k = 1 THEN Step(c, s) ELSE Return(c, s, <<>>)
         [] c.op = "setDiameter" -> SetDiameterCont(c, o, s)
         [] c.op = "stop_pump" ->
              IF c.k = 1 /\ STATUS(o.status[1]) # "halted" THEN Step(c, s)
              ELSE Return(c, s, <<>>)
         [] c.op = "check_rates_loop" -> CheckRatesCont(c, o, s)

\* What happens to the session just before the write of step k: resetDispensed
\* zeroes the carryover (lines 265-266); setDiameter loads the attribute it adds to
LoadsLast(c) == c.op = "setDiameter" /\ c.k < 3

\* BeforeWrite without the two assignments of resetDispensed
BeforeWriteKeep(c, s) == s

BeforeWrite(c, s) ==
  IF (c.op = "resetDispensed" /\ c.k = 1) \/ (c.op = "__init__" /\ c.k = 6)
    THEN [s EXCEPT !.hasLast = TRUE, !.lastInfused = 0, !.lastWithdrawn = 0]
  ELSE s

\* _write_read lines 189-190: the frame is written; the pump answers into the buffer
Write(t) ==
  /\ pc[t].ph = "w"
  /\ \E c \in {pc[t]} :
       IF LoadsLast(c) /\ ~sess[c.p].hasLast
         THEN /\ ret' = [ret EXCEPT ![t] = Kept(t, Ended(c, "AttributeError", <<>>, <<>>))]
              /\ pc' = [pc EXCEPT ![t] = AfterCall(t, c, "AttributeError")]
              /\ UNCHANGED <<dev, rx, sess, faults>>
         ELSE IF ~is_open
           \* write() on a closed port raises; in disconnect the finally clause
           \* returns all the same
           THEN \E exc \in {IF c.op = "disconnect" THEN "" ELSE "SerialException"} :
                /\ ret' = [ret EXCEPT ![t] = Kept(t, Ended(c, exc, <<>>, <<>>))]
                /\ pc' = [pc EXCEPT ![t] = AfterCall(t, c, exc)]
                /\ sess' = [sess EXCEPT ![c.p] =
                               [BeforeWrite(c, @) EXCEPT !.exited = @ \/ c.op = "disconnect"]]
                /\ UNCHANGED <<dev, rx, faults>>
         ELSE \E cmd \in {CmdOf(c.op, c.k, c.arg)} :
              \E frame \in {Frame(c.p, cmd)} :
              \E to \in {FrameAddress(frame)}, body \in {FrameBody(frame)} :
              \E e \in {DevExec(dev[to], body)} :
              \E f \in FaultKinds :
                /\ f # "none" => faults < MaxFaults /\ ~dev[c.p].alarm
                /\ \E r \in {Answer(dev[to], to, e, f)} :
                     /\ dev' = [dev EXCEPT ![to] = r.d]
                     /\ rx' = rx \o [i \in 1..Len(r.out) |->
                                       [line |-> r.out[i], by |-> t]]
                     /\ sess' = [sess EXCEPT ![c.p] = BeforeWrite(c, sess[c.p])]
                     /\ faults' = IF f = "none" THEN faults ELSE faults + 1
                     /\ pc' = [pc EXCEPT ![t] =
                          [c EXCEPT !.ph = "r",
                                    !.tmp = IF ~LoadsLast(c) THEN c.tmp
                                            ELSE IF c.k = 1 THEN sess[c.p].lastInfused
                                            ELSE sess[c.p].lastWithdrawn,
                                    !.sent = Append(c.sent, cmd),
                                    !.g.frame = frame,
                                    !.g.cleared = c.g.cleared
                                        \/ (r.exec /\ StartsWith(body, cmdDIA \o SP)),
                                    !.g.live = IF cmd = cmdDIS THEN <<r.d.inf, r.d.wdr>>
                                               ELSE c.g.live]]
                     /\ UNCHANGED ret
  /\ UNCHANGED <<pumps, ui, inp, decoded, is_open, shown, self_t>>

\* _write_read lines 191-202: readline (empty on timeout), classification, and the
\* rest of the operation up to its next write
Read(t) ==
  /\ pc[t].ph = "r"
  /\ \E res \in {IF rx = <<>> THEN <<>> ELSE Head(rx).line} :
     \E o \in {Classify(res)}, m \in {_response(res)} :
     \E c \in {[pc[t] EXCEPT !.g.shape = ShapeOf(res, m), !.g.addr = AddrOf(m),
                              !.g.data = IF m.ok /\ pc[t].op \in {"getRate", "getDiameter"}
                                           THEN m.data ELSE <<"-">>,
                              !.g.inner = o.kind, !.g.icode = o.code]} :
     \E n \in {Cont(c, o, sess[c.p])} :
       /\ rx' = IF rx = <<>> THEN rx ELSE Tail(rx)
       /\ sess' = [sess EXCEPT ![c.p] = n.s]
       \* disconnect line 220-221: self._ser.close()
       /\ is_open' = (is_open /\ ~(n.done /\ c.op = "disconnect"))
       \* check_rates_loop line 680: self.t is the Timer just made, which runs on
       \* the thread of the chain; after the first call, initUI line 479 makes
       \* its own Timer and assigns that
       /\ self_t' = IF n.done /\ n.exc = "" /\ c.op = "check_rates_loop"
                      THEN (IF t = "main" THEN "tB" ELSE t)
                      ELSE self_t
       /\ IF n.done
            THEN /\ ret' = [ret EXCEPT ![t] = Kept(t, Ended(c, n.exc, n.code, n.val))]
                 /\ ui' = AfterCallUi(t, c, n.exc)
                 /\ pc' = IF ui = "init" /\ t = "main" /\ n.exc = ""
                            \* the two Timers: check_rates_loop's and initUI's
                            THEN [u \in Threads |-> IF u = "main" THEN Idle ELSE Wait]
                            ELSE [pc EXCEPT ![t] = AfterCall(t, c, n.exc)]
            ELSE /\ pc' = [pc EXCEPT ![t] = n.c]
                 /\ UNCHANGED <<ret, ui>>
  /\ UNCHANGED <<dev, pumps, faults, inp, decoded, shown>>

\* the main thread has dealt with the outcome of its last call and goes on
Resume ==
  /\ pc["main"].op = "idle"
  /\ ret["main"] # RetNone
  /\ ret' = [ret EXCEPT !["main"] = RetNone]
  /\ UNCHANGED <<dev, rx, pumps, sess, pc, ui, faults, inp, decoded, is_open, shown, self_t>>

CanCall == /\ pc["main"].op = "idle"
           /\ ret["main"] = RetNone
           /\ ui \in {"down", "up"}
           /\ \A i \in 1..Len(pumps) : sess[pumps[i]].state = "ok"

\* main_ui lines 699-701: the Pump objects are built one after the other; an
\* exception out of a constructor ends the program
Construct(a) ==
  /\ pc["main"].op = "idle"
  /\ ret["main"] = RetNone
  /\ ui = "down"
  /\ sess[a].state = "none"
  /\ \E j \in 1..Len(pumps) :
        pumps[j] = a /\ \A i \in 1..(j - 1) : sess[pumps[i]].state = "ok"
  /\ pc' = [pc EXCEPT !["main"] = NewCall("__init__", a, <<>>)]
  /\ UNCHANGED <<dev, rx, pumps, sess, ret, ui, faults, inp, decoded, is_open, shown, self_t>>

\* the arguments the calls are made with
ArgsOf(op) ==
  CASE op = "setDirection" -> {"infuse", "withdraw"}
    [] op = "sendCommand" -> {cmdPHN, cmdDIA \o SP \o <<"9">>}
    [] op = "setRate" -> {<<"5">>}
    [] op = "setVolume" -> {<<"5", "0">>}
    [] op = "setDiameter" -> {<<"9">>}
    [] OTHER -> {<<>>}

PublicOps == {"run", "stop", "setDirection", "sendCommand", "getDirection", "getRate",
              "setRate", "setVolume", "getInfused", "getWithdrawn", "resetDispensed",
              "setDiameter", "getDiameter", "getStatus"}

\* a caller on the main thread calls one public operation of one session
Call(op, a) ==
  /\ CanCall /\ ui = "down"
  /\ \E arg \in ArgsOf(op) : pc' = [pc EXCEPT !["main"] = NewCall(op, a, arg)]
  /\ UNCHANGED <<dev, rx, pumps, sess, ret, ui, faults, inp, decoded, is_open, shown, self_t>>

\* getVolume line 252: the global SIM is defined nowhere
CallGetVolume(a) ==
  /\ CanCall /\ ui = "down"
  /\ ret' = [ret EXCEPT !["main"] = Ended(NewCall("getVolume", a, <<>>), "NameError", <<>>, <<>>)]
  /\ UNCHANGED <<dev, rx, pumps, sess, pc, ui, faults, inp, decoded, is_open, shown, self_t>>

\* a running pump moves its syringe: the counter of its direction grows
Held(a) == dev[a].inf + dev[a].wdr + sess[a].lastInfused + sess[a].lastWithdrawn

Dispense(a) ==
  /\ dev[a].status \in {"I", "W"}
  /\ Held(a) + Tick <= MaxVolume
  /\ dev' = [dev EXCEPT ![a] = IF dev[a].status = "I"
                                 THEN [@ EXCEPT !.inf = @ + Tick]
                                 ELSE [@ EXCEPT !.wdr = @ + Tick]]
  /\ pc' = [t \in Threads |-> IF pc[t].p = a /\ pc[t].op \in Watched
                                 THEN [pc[t] EXCEPT !.g.quiet = FALSE] ELSE pc[t]]
  /\ ret' = [t \in Threads |-> IF ret[t].p = a /\ ret[t].op \in Watched
                                  THEN [ret[t] EXCEPT !.g.quiet = FALSE] ELSE ret[t]]
  /\ UNCHANGED <<rx, pumps, sess, ui, faults, inp, decoded, is_open, shown, self_t>>

Next ==
  \/ \E a \in Pumps : Construct(a)
  \/ \E op \in PublicOps, i \in 1..Len(pumps) : Call(op, pumps[i])
  \/ \E i \in 1..Len(pumps) : CallGetVolume(pumps[i])
  \/ Write("main")
  \/ Read("main")
  \/ Resume
  \/ \E a \in Pumps : Dispense(a)

Spec == Init /\ [][Next]_vars

\* ------------------------------------------------- the window and its timers
\* a configuration file with two pumps, halted or still infusing when the program
\* starts, on a line without faults
InitGUI == InitWith(<<0, 1>>, MaxFaults, {"S", "I"}, {FALSE})

\* main_ui line 704, PumpControl.__init__ -> initUI line 478: the first
\* check_rates_loop runs on the main thread
StartUI ==
  /\ CanCall /\ ui = "down"
  /\ ui' = "init"
  /\ pc' = [pc EXCEPT !["main"] = NewCall("check_rates_loop", pumps[1], <<>>)]
  /\ UNCHANGED <<dev, rx, pumps, sess, ret, faults, inp, decoded, is_open, shown, self_t>>

\* a click on the Stop button of row i (stop_pump), handled on the main thread
Callback(op, a) ==
  /\ CanCall /\ ui = "up"
  /\ pc' = [pc EXCEPT !["main"] = NewCall(op, a, <<>>)]
  /\ UNCHANGED <<dev, rx, pumps, sess, ret, ui, faults, inp, decoded, is_open, shown, self_t>>

\* a threading.Timer expires: check_rates_loop runs on its thread
TimerFire(t) ==
  /\ pc[t].op = "wait"
  /\ pc' = [pc EXCEPT ![t] = NewCall("check_rates_loop", pumps[1], <<>>)]
  /\ UNCHANGED <<dev, rx, pumps, sess, ret, ui, faults, inp, decoded, is_open, shown, self_t>>

NextGUI ==
  \/ \E a \in Pumps : Construct(a)
  \/ StartUI
  \/ \E i \in 1..Len(pumps) : Callback("stop_pump", pumps[i])
  \/ \E t \in Threads \ {"main"} : TimerFire(t)
  \/ \E t \in Threads : Write(t)
  \/ \E t \in Threads : Read(t)
  \/ Resume

SpecGUI == InitGUI /\ [][NextGUI]_vars

\* ------------------------------------------------------- the end of the process
\* a configuration file with two pumps, halted or still infusing when the program
\* starts, on a line that may fail once
InitExit == InitWith(<<0, 1>>, 0, {"S", "I"}, {FALSE})

\* the interpreter exits (sys.exit, the end of the script, an uncaught exception)
Exit ==
  /\ pc["main"].op = "idle"
  /\ ui = "down"
  /\ ui' = "exit"
  /\ ret' = [ret EXCEPT !["main"] = RetNone]
  /\ UNCHANGED <<dev, rx, pumps, sess, pc, faults, inp, decoded, is_open, shown, self_t>>

\* the exit functions still to run
Pending == {i \in 1..Len(pumps) : sess[pumps[i]].registered /\ ~sess[pumps[i]].exited}

\* atexit runs the registered functions last in, first out: the disconnect of the
\* session registered last among those still to run
AtExit(a) ==
  /\ ui = "exit"
  /\ pc["main"].op = "idle"
  /\ \E i \in Pending : pumps[i] = a /\ \A j \in Pending : j <= i
  /\ pc' = [pc EXCEPT !["main"] = NewCall("disconnect", a, <<>>)]
  /\ ret' = [ret EXCEPT !["main"] = RetNone]
  /\ UNCHANGED <<dev, rx, pumps, sess, ui, faults, inp, decoded, is_open, shown, self_t>>

NextExit ==
  \/ \E a \in Pumps : Construct(a)
  \/ \E op \in {"run", "stop"}, i \in 1..Len(pumps) : Call(op, pumps[i])
  \/ Write("main")
  \/ Read("main")
  \/ Resume
  \/ Exit
  \/ \E a \in Pumps : AtExit(a)

SpecExit == InitExit /\ [][NextExit]_vars

\* ------------------------------------------- two callers of one session at once
\* a configuration file with one halted pump, on a line without faults
InitConc == InitWith(<<0>>, MaxFaults, {"S"}, {FALSE})

\* the program calls setDiameter (lines 275-279) on the main thread and, from a
\* second thread started at the same moment, getInfused (lines 269-271) of the
\* same session; Pump holds no lock, the two calls interleave at their writes and
\* reads
Fork(a) ==
  /\ CanCall /\ ui = "down"
  /\ pc["tA"].op = "off"
  /\ \E arg \in ArgsOf("setDiameter") :
        pc' = [pc EXCEPT !["main"] = NewCall("setDiameter", a, arg),
                         !["tA"] = NewCall("getInfused", a, <<>>)]
  /\ ret' = [ret EXCEPT !["tA"] = RetNone]
  /\ UNCHANGED <<dev, rx, pumps, sess, ui, faults, inp, decoded, is_open, shown, self_t>>

NextConc ==
  \/ \E a \in Pumps : Construct(a)
  \/ \E i \in 1..Len(pumps) : Call("run", pumps[i])
  \/ \E i \in 1..Len(pumps) : Fork(pumps[i])
  \/ \E t \in {"main", "tA"} : Write(t)
  \/ \E t \in {"main", "tA"} : Read(t)
  \/ Resume
  \/ \E a \in Pumps : Dispense(a)

SpecConc == InitConc /\ [][NextConc]_vars

\* ------------------------------------------------- decoding one reply line
\* the reply a device builds from an address field, a status and a data payload
EncodeReply(address, status, data) == <<STX>> \o address \o status \o data \o <<ETX>>

DataChars == {"?", "O", "R", "S", "1", ETX}

RECURSIVE SeqsUpTo(_, _)
SeqsUpTo(S, n) ==
  IF n = 0 THEN {<<>>}
  ELSE LET shorter == SeqsUpTo(S, n - 1)
       IN  shorter \cup {Append(q, c) : q \in shorter, c \in S}

InitDecode ==
  /\ dev = [a \in Pumps |-> [status |-> "S", dir |-> "INF", inf |-> 0, wdr |-> 0,
                               alarm |-> FALSE]]
  /\ pumps = <<>>
  /\ rx = <<>>
  /\ sess = [a \in Pumps |-> NoSession]
  /\ pc = [t \in Threads |-> IF t = "main" THEN Idle ELSE Off]
  /\ ret = [t \in Threads |-> RetNone]
  /\ ui = "down"
  /\ faults = 0
  /\ inp \in [address : {<<"0">>, <<"0", "1">>, <<"1", "0">>},
               status : {<<c>> : c \in StatusChars} \cup {<<"A", "?">>},
               data : SeqsUpTo(DataChars, MaxData)]
  /\ decoded = <<>>
  /\ is_open = TRUE
  /\ shown = <<>>
  /\ self_t = "none"

\* _write_read lines 193-202 on the line readline() returned
Decode ==
  /\ decoded = <<>>
  /\ decoded' = Classify(EncodeReply(inp.address, inp.status, inp.data))
  /\ UNCHANGED <<dev, rx, pumps, sess, pc, ret, ui, faults, inp, is_open, shown, self_t>>

\* PumpCommError._mesg, PumpHardwareError._mesg
_mesg(kind) ==
  IF kind = "PumpCommError"
    THEN <<>> :> "Command is not recognized"
         @@ <<"N", "A">> :> "Command is not currently applicable"
         @@ <<"O", "O", "R">> :> "Command data is out of range"
         @@ <<"C", "O", "M">> :> "Invalid communications packet received"
         @@ <<"I", "G", "N">> :> "Command ignored due to new phase start"
         @@ <<"N", "R">> :> "No response from pump"
         @@ <<"S", "E", "R">> :> "Unable to open serial port"
         @@ <<"U", "N", "K">> :> "Unknown error"
    ELSE <<"R">> :> "Pump was reset due to power interrupt"
         @@ <<"S">> :> "Pump motor is stalled"
         @@ <<"T">> :> "Safe mode communication time out"
         @@ <<"E">> :> "Pumping program error"
         @@ <<"O">> :> "Pumping program phase out of range"

_todo(kind) ==
  IF kind = "PumpCommError"
    THEN "Unable to connect to pump.  Please ensure that no other programs that utilize the pump are running and try try power-cycling the entire system (rack and computer)."
    ELSE "Pump has reported an error.  Please check to ensure pump motor is not over-extended and power-cycle the pump."

\* mesg=None
None == <<>>

\* PumpError.__str__ lines 31-35: '%s\n\n%s' % (self._todo, self._mesg[self.code]),
\* then ' ' + self.mesg unless mesg is None; a code that is no key of _mesg raises
\* KeyError
__str__(kind, code, mesg) ==
  IF code \notin DOMAIN _mesg(kind)
    THEN [exc |-> "KeyError", todo |-> "", mesg |-> "", tail |-> <<>>]
  ELSE [exc |-> "", todo |-> _todo(kind), mesg |-> _mesg(kind)[code],
        tail |-> IF mesg = None THEN <<>> ELSE SP \o mesg]

\* the exception _write_read raised for a reply to the status query is shown:
\* str(e); lines 199 and 201 passed the frame as mesg
Stringify ==
  /\ decoded # <<>>
  /\ decoded.kind \in {"PumpCommError", "PumpHardwareError"}
  /\ shown = <<>>
  /\ shown' = __str__(decoded.kind, decoded.code, Frame(0, <<>>))
  /\ UNCHANGED <<dev, rx, pumps, sess, pc, ret, ui, faults, inp, decoded, is_open, self_t>>

NextDecode == Decode \/ Stringify

SpecDecode == InitDecode /\ [][NextDecode]_vars

\* ------------------------------------------------------------------ properties
Zero == [exc |-> "", v |-> 0]
Carry(a) == <<sess[a].lastInfused, sess[a].lastWithdrawn>>

\* C1: across all sessions and threads that share the serial line, at most one
\* command/response cycle is outstanding: no frame is written between another
\* cycle's write and its readline.
C1_OneCycleOutstanding == Cardinality({t \in Threads : pc[t].ph = "r"}) <= 1

\* C2: when setDiameter has succeeded and the pump has not moved since the call
\* began, getInfused() and getWithdrawn() return what they returned just before it.
C2_SetDiameterKeepsTotals ==
  LET r == ret["main"]
  IN  (r.op = "setDiameter" /\ r.exc = "" /\ r.g.quiet) =>
        /\ TotalNow(r.p, "infuse") = TotalBefore(r, "infuse")
        /\ TotalNow(r.p, "withdraw") = TotalBefore(r, "withdraw")

\* a setDiameter that succeeded with a carryover and a live count, both non-zero
C2_Witness ==
  LET r == ret["main"]
  IN  /\ r.op = "setDiameter" /\ r.exc = "" /\ r.g.quiet
      /\ r.g.carry0[1] > 0
      /\ r.g.before[1] > 0
      /\ dev[r.p].inf = 0

\* C3: the carryover is updated, and the pump's counters are cleared, exactly when
\* the diameter is changed or a reset is requested: a call that made the pump clear
\* its counters by a diameter change folded the live totals into the carryover, a
\* setDiameter that changed the carryover changed the diameter, and no other
\* operation changes the carryover.
C3_CarryoverExactlyOnDiameterChange ==
  LET r == ret["main"]
  IN  /\ (r.op \in {"setDiameter", "sendCommand"} /\ r.g.cleared /\ r.g.quiet) =>
            /\ TotalNow(r.p, "infuse") = TotalBefore(r, "infuse")
            /\ TotalNow(r.p, "withdraw") = TotalBefore(r, "withdraw")
      /\ (r.op = "setDiameter" /\ Carry(r.p) # r.g.carry0) => r.g.cleared
      /\ (r.op \notin {"none", "__init__", "setDiameter", "resetDispensed"}) =>
            Carry(r.p) = r.g.carry0

\* C4: in every state of a constructed session, a getInfused() whose DIS query is
\* answered by a normal reply returns the carryover plus the infuse count of that
\* reply, and getWithdrawn() likewise; each call writes one frame, the DIS query.
C4_TotalsAreCarryoverPlusLive ==
  LET r == ret["main"]
      c == pc["main"]
  IN  /\ (r.op = "getInfused" /\ r.g.inner = "Response") =>
            (r.exc = "" /\ r.val = sess[r.p].lastInfused + r.g.live[1])
      /\ (r.op = "getWithdrawn" /\ r.g.inner = "Response") =>
            (r.exc = "" /\ r.val = sess[r.p].lastWithdrawn + r.g.live[2])
      /\ r.op \in {"getInfused", "getWithdrawn"} => r.sent = <<<<"D", "I", "S">>>>
      /\ (c.op \in {"getInfused", "getWithdrawn"} /\ c.ph = "r") =>
            c.sent = <<<<"D", "I", "S">>>>

\* C5: when resetDispensed has succeeded and the pump has not moved since the call
\* began, getInfused() and getWithdrawn() both return 0.
C5_ResetZeroes ==
  LET r == ret["main"]
  IN  (r.op = "resetDispensed" /\ r.exc = "" /\ r.g.quiet) =>
        /\ TotalNow(r.p, "infuse") = Zero
        /\ TotalNow(r.p, "withdraw") = Zero

\* a resetDispensed that succeeded on a carryover and a live count, both non-zero
C5_Witness ==
  LET r == ret["main"]
  IN  /\ r.op = "resetDispensed" /\ r.exc = "" /\ r.g.quiet
      /\ r.g.carry0[1] > 0
      /\ r.g.before[1] > 0

\* C6: in the constructor a PumpHardwareError with code R is swallowed and the
\* session is constructed; any other PumpHardwareError and every PumpCommError
\* leaves the constructor, and no session is constructed.
C6_InitSwallowsOnlyR ==
  LET r == ret["main"]
      reset == r.g.inner = "PumpHardwareError" /\ r.g.icode = <<"R">>
  IN  r.op = "__init__" =>
        /\ reset => (r.exc = "" /\ sess[r.p].state = "ok")
        /\ (r.g.inner \in {"PumpHardwareError", "PumpCommError"} /\ ~reset) =>
              /\ r.exc = r.g.inner /\ r.code = r.g.icode
              /\ sess[r.p].state = "failed"

\* a constructor that swallowed the power-interrupt alarm
C6_Witness ==
  LET r == ret["main"]
  IN  /\ r.op = "__init__" /\ r.exc = "" /\ sess[r.p].state = "ok"
      /\ r.g.inner = "PumpHardwareError" /\ r.g.icode = <<"R">>

\* C7: a constructor that returns has written the five setup commands AL, DIA,
\* VOL value, VOL unit, RAT; they are written in this order, each after the reply to
\* the one before has been read, and nothing else is written before the RAT command.
SetupCommands ==
  << <<"A", "L", " ", "0">>,
     <<"D", "I", "A", " ", "1", "4", ".", "3">>,
     <<"V", "O", "L", " ", "1", "0", "0">>,
     <<"V", "O", "L", " ", "U", "L">>,
     <<"R", "A", "T", " ", "1", "0", " ", "U", "M">> >>

IsSetupPrefix(sent) ==
  \A i \in 1..Len(sent) : i <= Len(SetupCommands) => sent[i] = SetupCommands[i]

C7_SetupOrder ==
  LET r == ret["main"]
      c == pc["main"]
  IN  /\ r.op = "__init__" =>
            /\ IsSetupPrefix(r.sent)
            /\ r.exc = "" => Len(r.sent) >= Len(SetupCommands)
      /\ c.op = "__init__" =>
            /\ IsSetupPrefix(c.sent)
            /\ Len(c.sent) = IF c.ph = "w" THEN c.k - 1 ELSE c.k
            /\ c.ph = "w" => rx = <<>>

\* C8: a reply line is returned as a Response only if its address field is the
\* address of the session that sent the command.
C8_ResponseAddressMatches ==
  \A t \in Threads :
     /\ (pc[t].op \notin {"idle", "off", "wait", "dead"} /\ pc[t].g.inner = "Response") =>
           pc[t].g.addr = pc[t].p
     /\ (ret[t].op # "none" /\ ret[t].g.inner = "Response") => ret[t].g.addr = ret[t].p

\* C9: a well-formed line STX address status data ETX with status A? yields
\* PumpHardwareError(data); otherwise, with data beginning with "?", it yields
\* PumpCommError(data[1:]); otherwise a Response of that address, status and data.
C9_Expected ==
  IF inp.status = <<"A", "?">> THEN Exc("PumpHardwareError", inp.data)
  ELSE IF inp.data # <<>> /\ inp.data[1] = "?"
         THEN Exc("PumpCommError", Tail(inp.data))
  ELSE [kind |-> "Response", code |-> <<>>, address |-> inp.address,
        status |-> inp.status, data |-> inp.data]

C9_DecodeClassifies ==
  decoded # <<>> =>
    /\ decoded = C9_Expected
    /\ (inp = [address |-> <<"0">>, status |-> <<"A", "?">>, data |-> <<"S">>]) =>
          (decoded.kind = "PumpHardwareError" /\ decoded.code = <<"S">>)
    /\ (inp = [address |-> <<"0">>, status |-> <<"I">>, data |-> <<"?", "O", "O", "R">>]) =>
          (decoded.kind = "PumpCommError" /\ decoded.code = <<"O", "O", "R">>)

\* a fault reply whose code begins with "?" has been decoded
C9_Witness ==
  /\ decoded # <<>>
  /\ inp.status = <<"A", "?">> /\ inp.data = <<"?", "S">>
  /\ decoded.kind = "PumpHardwareError"

\* C10: when the read returns no bytes or a line that does not have the shape
\* STX address status data ETX, the public operation ends with PumpCommError NR.
C10_NoResponseIsNR ==
  LET r == ret["main"]
  IN  (r.op \in PublicOps /\ r.g.shape \in {"empty", "bad"}) =>
        (r.exc = "PumpCommError" /\ r.code = <<"N", "R">>)

\* C11: when the exit functions of the sessions that share the port run, every
\* session whose pump is not halted has the STP command written to its address
\* before the port is closed, and the port is closed when all of them have run.
C11_ExitStopsEveryPump ==
  LET r == ret["main"]
  IN  /\ (r.op = "disconnect" /\ ~r.g.halted) =>
            (r.sent = <<<<>>, <<"S", "T", "P">>>> /\ dev[r.p].status = "S")
      /\ (ui = "exit" /\ pc["main"].op = "idle" /\ Pending = {}
             /\ \E a \in Pumps : sess[a].registered) => ~is_open

\* C12: every session whose constructor returned without raising, the one that
\* swallowed the power-interrupt alarm R included, has its disconnect registered
\* to run when the process exits.
C12_ConstructedIsRegistered ==
  \A a \in Pumps : sess[a].state = "ok" => sess[a].registered

\* C13: str() of a PumpCommError or a PumpHardwareError whose code is in no table
\* of its class does not raise: it gives the message 'Unknown error' after the
\* remediation text.
C13_UnknownCodeFallsBack ==
  (shown # <<>> /\ decoded.code \notin DOMAIN _mesg(decoded.kind)) =>
     /\ shown.exc = ""
     /\ shown.todo = _todo(decoded.kind)
     /\ shown.mesg = "Unknown error"

\* C14: no retry and no recovery: a call whose last reply was classified as an error
\* (no response, malformed line, "?" reply, "A?" fault) writes no further frame, a
\* public operation ends with that very error, and the frames a call has written
\* are the commands of its steps, one frame per step.
C14_NoRetry ==
  LET r == ret["main"]
      c == pc["main"]
  IN  /\ c.ph = "w" => c.g.inner \in {"none", "Response"}
      /\ c.ph \in {"w", "r"} =>
            /\ Len(c.sent) = IF c.ph = "w" THEN c.k - 1 ELSE c.k
            /\ \A i \in 1..Len(c.sent) : c.sent[i] = CmdOf(c.op, i, c.arg)
      /\ (r.op \in PublicOps /\ r.g.inner \notin {"none", "Response"}) =>
            (r.exc = r.g.inner /\ r.code = r.g.icode)

\* a setDiameter that ended with the error reply to its second query, two frames
\* written
C14_Witness ==
  LET r == ret["main"]
  IN  /\ r.op = "setDiameter" /\ r.exc = "PumpCommError" /\ r.code = <<"O", "O", "R">>
      /\ r.sent = <<<<"D", "I", "S">>, <<"D", "I", "S">>>>

\* C15: for every address field, every status among I, W, S, P, T, U, X and every
\* data payload that does not begin with "?" and holds no ETX and no line
\* terminator, decoding the reply line built from them yields a Response with
\* exactly that address, status and data.
C15_ReplyRoundTrip ==
  (/\ decoded # <<>>
   /\ inp.status \in {<<"I">>, <<"W">>, <<"S">>, <<"P">>, <<"T">>, <<"U">>, <<"X">>}
   /\ ~StartsWith(inp.data, <<"?">>)
   /\ \A i \in 1..Len(inp.data) : inp.data[i] \notin {ETX, CR, LF}) =>
     decoded = [kind |-> "Response", code |-> <<>>, address |-> inp.address,
                status |-> inp.status, data |-> inp.data]

\* a reply with a two-digit address and a "?" inside its data has been decoded
C15_Witness ==
  /\ decoded # <<>> /\ decoded.kind = "Response"
  /\ inp = [address |-> <<"1", "0">>, status |-> <<"X">>, data |-> <<"O", "?", "R", "S">>]

\* the letters of the verbs
Letters == {"A", "C", "D", "F", "H", "I", "L", "N", "O", "P", "R", "S", "T", "U",
            "V", "W"}

\* frame reads as: decimal numeral of a, space, command text, carriage return
IsFrameOf(frame, a, op) ==
  LET n == Len(frame)
      sps == {i \in 1..n : frame[i] = " "}
  IN  /\ n >= 3 /\ sps # {}
      /\ frame[n] = CR /\ \A i \in 1..(n - 1) : frame[i] \notin {CR, LF}
      /\ LET i == CHOOSE j \in sps : \A l \in sps : j <= l
             body == SubSeq(frame, i + 1, n - 1)
             ve == RunFrom(body, 0, Letters)
         IN  /\ i > 1 /\ \A j \in 1..(i - 1) : frame[j] \in Digits
             /\ IntOf(SubSeq(frame, 1, i - 1)) = a
             /\ (i > 2 => frame[1] # "0")
             /\ \/ body = <<>>
                \/ ve >= 1 /\ ve = Len(body)
                \/ /\ ve >= 1 /\ ve + 2 <= Len(body) /\ body[ve + 1] = " "
                   /\ op # "sendCommand" => body[ve + 2] # " "

\* C16: every frame written is the decimal address the session was constructed
\* with, one space, the command text and one carriage return, the last character;
\* the command text is empty (status query) or a verb, followed, when there is an
\* argument, by one space and the argument (sendCommand passes the text of its
\* caller as it is).
C16_FrameFormat ==
  /\ \A t \in Threads : pc[t].ph = "r" => IsFrameOf(pc[t].g.frame, pc[t].p, pc[t].op)
  /\ \A t \in Threads :
        (ret[t].op # "none" /\ ret[t].sent # <<>>) =>
           IsFrameOf(ret[t].g.frame, ret[t].p, ret[t].op)

\* setRate has written its frame: verb, space, argument
C16_Witness ==
  /\ pc["main"].op = "setRate" /\ pc["main"].ph = "r"
  /\ pc["main"].g.frame = <<"0", " ", "R", "A", "T", " ", "5", " ", "U", "M", CR>>

\* C17: getVolume() writes the volume query, the frame of VOL without argument,
\* and returns the data of the reply; it raises only what _write_read raises.
C17_GetVolumeQueries ==
  LET r == ret["main"]
  IN  r.op = "getVolume" =>
        /\ r.sent = <<<<"V", "O", "L">>>>
        /\ r.exc \in {"", "PumpCommError", "PumpHardwareError"}

\* C18: getDiameter() writes the diameter query, the frame of DIA without argument,
\* and returns the data of the reply as a string, as getRate() returns the data of
\* the reply to the RAT query.
C18_GetDiameterReturnsData ==
  LET r == ret["main"]
  IN  /\ r.op = "getDiameter" => r.sent = <<<<"D", "I", "A">>>>
      /\ r.op = "getRate" => r.sent = <<<<"R", "A", "T">>>>
      /\ (r.op \in {"getDiameter", "getRate"} /\ r.exc = "") =>
            (r.val.type = "str" /\ r.val.v = r.g.data)

C20_OwnReplyOnly ==
  [][\A t \in Threads :
       (pc[t].ph = "r" /\ pc'[t] # pc[t] /\ rx # <<>> /\ rx' = Tail(rx)) =>
          Head(rx).by = t]_vars

\* C21: a setDiameter that ended with an error, at its first DIS query, its second
\* or the DIA command, left the carryover as it found it, so that with the pump at
\* rest getInfused() and getWithdrawn() still return what they returned before it.
C21_FailedSetDiameterKeepsCarryover ==
  LET r == ret["main"]
  IN  (r.op = "setDiameter" /\ r.exc # "") =>
        /\ Carry(r.p) = r.g.carry0
        /\ r.g.quiet =>
              /\ TotalNow(r.p, "infuse") = TotalBefore(r, "infuse")
              /\ TotalNow(r.p, "withdraw") = TotalBefore(r, "withdraw")

\* C22: a constructor that returned without raising, the one that swallowed the
\* power-interrupt alarm R included, has written all five setup commands and has
\* set both carryover totals to zero; on a constructed session getInfused,
\* getWithdrawn and setDiameter never fail for want of the carryover attributes.
C22_ConstructedIsUsable ==
  LET r == ret["main"]
  IN  /\ (r.op = "__init__" /\ r.exc = "") =>
            /\ Len(r.sent) >= Len(SetupCommands)
            /\ \A i \in 1..Len(SetupCommands) : r.sent[i] = SetupCommands[i]
            /\ sess[r.p].hasLast
            /\ Carry(r.p) = <<0, 0>>
      /\ \A a \in Pumps : sess[a].state = "ok" => sess[a].hasLast
      /\ r.op \in {"getInfused", "getWithdrawn", "setDiameter"} => r.exc # "AttributeError"

\* C23: disconnect never raises: whatever getStatus or stop met (no reply, an error
\* reply, a fault reply, a port already closed), a finished disconnect has returned
\* normally, and the port is closed.
C23_DisconnectNeverRaises ==
  \A t \in Threads : ret[t].op = "disconnect" => (ret[t].exc = "" /\ ~is_open)

\* a disconnect whose getStatus or stop got a fault reply from the pump
C23_Witness ==
  LET r == ret["main"]
  IN  /\ r.op = "disconnect" /\ r.exc = "" /\ ~is_open
      /\ r.g.inner = "PumpHardwareError"

\* a disconnect whose getStatus got no reply at all
C23_NoReply ==
  LET r == ret["main"]
  IN  /\ r.op = "disconnect" /\ r.exc = "" /\ ~is_open
      /\ r.g.inner = "PumpCommError" /\ r.g.icode = <<"N", "R">> /\ r.g.shape = "empty"

\* a disconnect that found the port closed by the disconnect of another session
C23_ClosedPort ==
  LET r == ret["main"]
  IN  /\ r.op = "disconnect" /\ r.exc = "" /\ r.sent = <<>>

\* C24: when getInfused runs at the same time as setDiameter on one session and
\* the pump has not moved since the two calls began, a getInfused that returns a
\* value returns the total as it was when they began (the total after the change is
\* the same): no live count is added twice, as the reading and inside the carryover.
C24_NoDoubleCount ==
  LET r == ret["tA"]
      m == IF pc["main"].op = "setDiameter" THEN pc["main"] ELSE ret["main"]
  IN  (r.op = "getInfused" /\ r.exc = "" /\ m.op = "setDiameter" /\ m.g.quiet) =>
         r.val = m.g.carry0[1] + m.g.before[1]

\* the Timers that are waiting to fire or whose check_rates_loop is running
Polling == {u \in Threads \ {"main"} : pc[u].op \in {"wait", "check_rates_loop"}}

\* C25: at any time at most one status-polling Timer is waiting or running, and
\* it is the one the field t of the control references, so that cancelling t
\* leaves no Timer behind.
C25_OneTimer ==
  /\ Cardinality(Polling) <= 1
  /\ Polling \subseteq {self_t}
====
